---- MODULE Spec2Model ----
(***************************************************************************)
(* Model of the UPYUN REST client (src/upyun/upyun-rest-api.go):           *)
(*   - UpYun.ResumePut: chunked upload with per-part retry, and the         *)
(*     single-shot UpYun.Put it falls back to;                              *)
(*   - UpYun.GetLargeList / UpYun.loopList: cursor-paged, optionally        *)
(*     recursive listing streamed over two buffered channels.               *)
(* Header maps are functions from header names to values.  Decimal strings  *)
(* (strconv.Itoa, strconv.FormatInt, fmt.Sprint of an integer) are          *)
(* sequences of digits.  Paths are sequences of one-character strings.      *)
(* I/O failures of Stat, Seek and of the digest helpers are not modelled;   *)
(* failures of the network calls and of NewFragmentFile are.                *)
(***************************************************************************)
EXTENDS Integers, Sequences, FiniteSets, TLC

\* ---------------------------------------------------------------- bounds
MaxSize == 5
MaxRetry == 1
MaxCalls == 2
\* pages of a listed directory after its first one
ExtraPages == 1
\* the entries a consumer that stops receiving has received before it stops
MaxRecv == 1

\* --------------------------------------------------- program constants
\* declared outside upyun-rest-api.go; scaled down, used at lines 164-202
resumePartSize == 2
resumeFileSizeLowerLimit == resumePartSize

Tokens == {"u1"}
\* X-Upyun-Multi-Uuid of a response as http.Header.Get sees it: "" when the
\* header is absent or empty
ResponseUuids == {""} \cup Tokens
RetryCounts == (0 - 1)..MaxRetry
Sizes == 0..MaxSize

\* ------------------------------------------------------ pure helpers
Min(a, b) == IF a < b THEN a ELSE b

\* strconv.Itoa / strconv.FormatInt(n, 10) / fmt.Sprint(n) for n >= 0
RECURSIVE Itoa(_)
Itoa(n) == IF n < 10 THEN <<n>> ELSE Itoa(n \div 10) \o <<n % 10>>

\* the number a decimal string denotes (used to read headers back)
RECURSIVE Atoi(_)
Atoi(s) == IF Len(s) = 0 THEN 0
           ELSE 10 * Atoi(SubSeq(s, 1, Len(s) - 1)) + s[Len(s)]

EmptyMap == [k \in {} |-> ""]
MapHas(h, k) == k \in DOMAIN h
\* Go map read: the zero value "" for a missing key
MapGet(h, k) == IF k \in DOMAIN h THEN h[k] ELSE ""
MapSet(h, k, v) == [x \in (DOMAIN h) \cup {k} |-> IF x = k THEN v ELSE h[x]]

\* header maps a caller passes to ResumePut (nil becomes the empty map)
BaseHeaders == {EmptyMap, [k \in {"Content-Type"} |-> "text/plain"]}

\* digest of the bytes [off, off+len) of the file
Digest(off, len) == <<"md5", off, len>>

NoErr == [kind |-> "nil", part |-> 0 - 1, attempt |-> 0 - 1]
MkErr(kind, p, a) == [kind |-> kind, part |-> p, attempt |-> a]

\* makeRESTAuth: a function of method and Content-Length (uri, date fixed)
makeRESTAuth(method, lengthStr) == <<"UpYun", method, lengthStr>>

\* doRESTRequest's writes to the header map it was given
doRESTRequestHeaders(h) ==
    LET lengthStr == IF MapHas(h, "Content-Length") THEN h["Content-Length"] ELSE Itoa(0)
        h1 == MapSet(h, "Date", "date")
    IN  MapSet(h1, "Authorization", makeRESTAuth("PUT", lengthStr))

\* UpYun.Put's writes to the header map it was given; isFile: value is *os.File
PutHeaders(h, isFile, fsize, md5) ==
    LET h1 == IF ~MapHas(h, "Content-Length") /\ isFile
              THEN MapSet(h, "Content-Length", Itoa(fsize)) ELSE h
        h2 == IF ~MapHas(h1, "Content-MD5") /\ md5 /\ isFile
              THEN MapSet(h1, "Content-MD5", Digest(0, fsize)) ELSE h1
    IN  doRESTRequestHeaders(h2)

\* (mutant) the decrement for exact multiples forgotten
MaxPartID_NoDecrement(s) == s \div resumePartSize

\* maxPartID of ResumePut for a file of s bytes
MaxPartID(s) ==
    LET m == s \div resumePartSize
    IN  IF s % resumePartSize = 0 THEN m - 1 ELSE m

\* (mutant) the final part declared with the full part size
PartSwitch_FullLast(ih, h, p, maxp, fsize, md5) ==
    MapSet(MapSet(ih,
        "X-Upyun-Multi-Stage",
        IF p = 0 THEN "initiate,upload" ELSE IF p = maxp THEN "upload,complete" ELSE "upload"),
        "Content-Length", Itoa(resumePartSize))

\* the switch on part: stage marker and Content-Length (and, for the first
\* part, the declared type and length; for the last, the whole-file digest).
\* Go takes the first matching case: case 0 wins when maxPartID is 0.
PartSwitch(ih, h, p, maxp, fsize, md5) ==
    IF p = 0 THEN
        MapSet(MapSet(MapSet(MapSet(ih,
            "X-Upyun-Multi-Type", MapGet(h, "Content-Type")),
            "X-Upyun-Multi-Length", Itoa(fsize)),
            "X-Upyun-Multi-Stage", "initiate,upload"),
            "Content-Length", Itoa(resumePartSize))
    ELSE IF p = maxp THEN
        LET a == MapSet(MapSet(ih,
                    "X-Upyun-Multi-Stage", "upload,complete"),
                    "Content-Length", Itoa(fsize - resumePartSize * p))
        IN  IF md5 THEN MapSet(a, "X-Upyun-Multi-MD5", Digest(0, fsize)) ELSE a
    ELSE
        MapSet(MapSet(ih,
            "X-Upyun-Multi-Stage", "upload"),
            "Content-Length", Itoa(resumePartSize))

\* the bytes of part p of a file of fsize bytes
WindowLen(fsize, p) == Min(resumePartSize, fsize - p * resumePartSize)

\* innerHeaders of one part, as built before the retry loop
InnerHeaders(h, p, maxp, fsize, md5) ==
    LET copy == h
        a == MapSet(copy, "X-Upyun-Part-Id", Itoa(p))
        b == PartSwitch(a, h, p, maxp, fsize, md5)
    IN  IF md5
        THEN MapSet(b, "Content-MD5",
                    Digest(p * resumePartSize, WindowLen(fsize, p)))
        ELSE b

\* the retry loop runs its body for i = 0 .. ResumeRetryCount
LoopEnters(n) == 0 < n + 1

\* (mutant) one attempt too many
LastAttempt_OffByOne(a, n) == a = n + 1

\* after a net error at attempt a: give up when a = ResumeRetryCount
LastAttempt(a, n) == a = n

\* (mutant) every error is retried
Retryable_Any(kind) == TRUE

\* only a net.Error is retried
Retryable(kind) == kind = "net"

\* the window of the current part: its read cursor, and how often the retry
\* loop has slept and has re-sought it in this call
NewWindow == [pos |-> 0, sleeps |-> 0, seeks |-> 0]

\* NewFragmentFile (and FragmentFile.MD5, which restores the cursor): the
\* window of the next part, read from its start
OpenWindow(w) == [w EXCEPT !.pos = 0]

\* u.Put sends the window's bytes from the cursor on: n bytes are consumed
Consumed(w, n) == [w EXCEPT !.pos = w.pos + n]

\* (mutant) the window is not re-sought before the next attempt
RetryWait_NoSeek(w) == [w EXCEPT !.sleeps = w.sleeps + 1]

\* lines 224-225: time.Sleep(ResumeWaitTime); file.Seek(0, 0)
RetryWait(w) == [w EXCEPT !.sleeps = w.sleeps + 1, !.seeks = w.seeks + 1, !.pos = 0]

\* (mutant) the token is taken from every part's response
StoresToken_Always(p) == TRUE

\* the session token is taken from the response of part 0 only
StoresToken(p) == p = 0


\* ------------------------------------------------- listing: pure helpers
\* strings.HasSuffix(key, "/")
HasSuffixSlash(p) == Len(p) > 0 /\ p[Len(p)] = "/"

\* lines 290-292
NormalizeKey(k) == IF HasSuffixSlash(k) THEN k ELSE k \o <<"/">>

\* lines 293-296
OrderOf(asc) == IF asc THEN "asc" ELSE "desc"

\* path.Clean on paths without "." and ".." elements: runs of separators
\* collapse, a trailing separator goes unless the path is the root
Squeeze(p) ==
    LET from[x \in 1..(Len(p) + 1)] ==
            IF x > Len(p) THEN <<>>
            ELSE IF x < Len(p) /\ p[x] = "/" /\ p[x + 1] = "/" THEN from[x + 1]
            ELSE <<p[x]>> \o from[x + 1]
    IN  from[1]

Clean(p) ==
    LET q == Squeeze(p)
    IN  IF q = <<>> THEN <<".">>
        ELSE IF Len(q) > 1 /\ q[Len(q)] = "/" THEN SubSeq(q, 1, Len(q) - 1)
        ELSE q

\* path.Join(a, b): empty elements are dropped, the rest joined and cleaned
Join(a, b) ==
    IF a = <<>> /\ b = <<>> THEN <<>>
    ELSE IF a = <<>> THEN Clean(b)
    ELSE IF b = <<>> THEN Clean(a)
    ELSE Clean(a \o <<"/">> \o b)

\* index of the first occurrence of old in s, 0 when there is none
IndexOf(s, old) ==
    LET hits == {x \in 1..(Len(s) - Len(old) + 1) : SubSeq(s, x, x + Len(old) - 1) = old}
    IN  IF hits = {} THEN 0 ELSE CHOOSE x \in hits : \A y \in hits : x <= y

\* (mutant) strings.Replace(s, old, "", -1): every occurrence removed
RECURSIVE ReplaceFirst_All(_, _)
ReplaceFirst_All(s, old) ==
    LET x == IndexOf(s, old)
    IN  IF x = 0 \/ old = <<>> THEN s
        ELSE ReplaceFirst_All(SubSeq(s, 1, x - 1) \o SubSeq(s, x + Len(old), Len(s)), old)

\* strings.Replace(s, old, "", 1)
ReplaceFirst(s, old) ==
    LET x == IndexOf(s, old)
    IN  IF x = 0 THEN s
        ELSE SubSeq(s, 1, x - 1) \o SubSeq(s, x + Len(old), Len(s))

\* lines 316-319: the name sent for the entry whose absolute path is abs
RelativeName(abs, root) ==
    LET n == ReplaceFirst(abs, root)
    IN  IF n[1] = "/" THEN Tail(n) ELSE n

\* the cursor header values of the server
\* lines 288, 289 and 304
InfoChannelCap == 1000
ErrChannelCap == 10
ListLimit == 50

\* (mutant) a send never waits for room in the channel
CanSend_Always(ch, cap) == TRUE

\* a send on a buffered channel goes through when the buffer has room
CanSend(ch, cap) == Len(ch) < cap

Sentinel == "g2gCZAAEbmV4dGQAA2VvZg"
\* stands for a response without the X-Upyun-List-Iter header
Absent == "<absent>"
CursorNames == <<"", "c2", "c3", "c4", "c5", "c6", "c7", "c8", "c9", "c10",
      "c11", "c12", "c13", "c14", "c15", "c16", "c17", "c18", "c19", "c20",
      "c21", "c22">>
CursorOf(j) == CursorNames[j]
PageOf(iter) ==
    IF \E j \in 1..Len(CursorNames) : CursorNames[j] = iter
    THEN CHOOSE j \in 1..Len(CursorNames) : CursorNames[j] = iter
    ELSE 0

\* (mutant) the sentinel is passed on as a cursor
LoopListReturn_KeepSentinel(body, hdr) ==
    IF hdr = Absent THEN [infos |-> <<>>, niter |-> ""]
    ELSE [infos |-> body, niter |-> hdr]

\* (mutant) a response without the header is taken for a page with more to come
LoopListReturn_AbsentGoesOn(body, hdr) ==
    IF hdr = Absent THEN [infos |-> <<>>, niter |-> CursorOf(2)]
    ELSE [infos |-> body, niter |-> IF hdr = Sentinel THEN "" ELSE hdr]

\* (mutant) the entries of a response without the header are kept
LoopListReturn_AbsentKeepsBody(body, hdr) ==
    IF hdr = Absent THEN [infos |-> body, niter |-> ""]
    ELSE [infos |-> body, niter |-> IF hdr = Sentinel THEN "" ELSE hdr]

\* (mutant) the entries of a response are dropped
LoopListReturn_NoEntries(body, hdr) ==
    IF hdr = Absent THEN [infos |-> <<>>, niter |-> ""]
    ELSE [infos |-> <<>>, niter |-> IF hdr = Sentinel THEN "" ELSE hdr]

\* lines 358-379: what loopList returns for a successful response with the
\* entries body and the cursor header hdr
LoopListReturn(body, hdr) ==
    IF hdr = Absent THEN [infos |-> <<>>, niter |-> ""]
    ELSE [infos |-> body, niter |-> IF hdr = Sentinel THEN "" ELSE hdr]

\* (mutant) only the first page is listed
MorePages_Never(iter) == FALSE

\* lines 327-329: the page loop goes on while the cursor is not empty
MorePages(iter) == iter # ""

\* ------------------------------------------------ the listed directories
\* the elements of a path
Segments(p) ==
    LET from[x \in 1..(Len(p) + 1)] ==
            IF x > Len(p) THEN <<>>
            ELSE IF p[x] = "/" THEN from[x + 1]
            ELSE LET stops == {y \in x..Len(p) : p[y] = "/"}
                     n == IF stops = {} THEN Len(p) + 1
                          ELSE CHOOSE y \in stops : \A z \in stops : y <= z
                 IN  <<SubSeq(p, x, n - 1)>> \o from[n]
    IN  from[1]

RECURSIVE JoinSegments(_)
JoinSegments(segs) ==
    IF Len(segs) = 0 THEN <<>>
    ELSE IF Len(segs) = 1 THEN segs[1]
    ELSE segs[1] \o <<"/">> \o JoinSegments(Tail(segs))

File(name, dir, page, pos) ==
    [Name |-> name, Type |-> "file", dir |-> dir, page |-> page, pos |-> pos]
Folder(name, dir, page, pos) ==
    [Name |-> name, Type |-> "folder", dir |-> dir, page |-> page, pos |-> pos]

ExtraNames == <<"b", "e", "f">>
DirR == << <<"r">> >>
DirD == << <<"r">>, <<"d">> >>
\* a directory of WidePages full pages of files, listed under the key WideKey
DirW == << <<"w">> >>
WideKey == <<"w", "/">>
WidePages == 21
Dirs == {<<>>, DirR, DirD}

DigitChars == <<"0", "1", "2", "3", "4", "5", "6", "7", "8", "9">>
\* the name of entry pos of page j of the wide directory
WideName(j, pos) ==
    LET a == Itoa(j)
        b == Itoa(pos)
    IN  [x \in 1..Len(a) |-> DigitChars[a[x] + 1]] \o <<"-">> \o
        [x \in 1..Len(b) |-> DigitChars[b[x] + 1]]

\* the pages of the directories under the listed root: the root holds a
\* folder named like the root itself and a file, r holds a folder and a
\* file, d holds a file; further pages hold a file each
FirstPage(dir) ==
    IF dir = <<>> THEN <<Folder(<<"r">>, dir, 1, 1), File(<<"a">>, dir, 1, 2)>>
    ELSE IF dir = DirR THEN <<Folder(<<"d">>, dir, 1, 1), File(<<"c">>, dir, 1, 2)>>
    ELSE <<File(<<"g">>, dir, 1, 1)>>
PageCount(dir) ==
    IF dir = DirW THEN WidePages ELSE IF dir = DirR THEN 1 ELSE 1 + ExtraPages
Page(dir, j) ==
    IF dir = DirW THEN [pos \in 1..ListLimit |-> File(WideName(j, pos), dir, j, pos)]
    ELSE IF j = 1 THEN FirstPage(dir)
    ELSE <<File(<<ExtraNames[j - 1]>>, dir, j, 1)>>

\* the cursor headers the server may answer page j of dir with
CursorHeaders(dir, j) ==
    IF j < PageCount(dir) THEN {CursorOf(j + 1), Absent} ELSE {"", Sentinel, Absent}

\* ------------------------------------------------------------ state
VARIABLES
    upc,          \* position of the caller in ResumePut
    retryCount,   \* ResumeRetryCount
    size,         \* fileinfo.Size()
    useMD5,
    reporter,     \* TRUE when a ResumeReporter was passed
    headers,      \* the caller's header map
    headers0,     \* its content when ResumePut was called
    maxPartID,
    part,
    innerHeaders,
    i,            \* attempt index of the retry loop
    resp,         \* the last response header returned by Put
    err,          \* the error ResumePut returns
    requests,     \* every PUT issued by this call, in order
    reported,     \* the reporter's invocations, in order (at: PUTs issued before)
    calls,        \* ResumePut calls made so far
    window        \* the FragmentFile of the current part

putVars == <<upc, retryCount, size, useMD5, reporter, headers, headers0,
             maxPartID, part, innerHeaders, i, resp, err, requests, reported, calls,
             window>>

VARIABLES
    lpc,          \* position of the background task of GetLargeList
    key,          \* the listed root, normalised
    order,
    recursive,
    stack,        \* the activations of listDir, innermost last
    infoChannel,
    errChannel,
    infoClosed,
    errClosed,
    closes,       \* how often close() was called on each channel
    fetches,      \* every loopList call, in order (sent: entries sent before it)
    sentAt,       \* for every entry sent on infoChannel, in order: the calls before it
    errors,       \* every error sent on errChannel, in order
    delivered,    \* what the consumer received from infoChannel
    errDelivered  \* what the consumer received from errChannel

listVars == <<lpc, key, order, recursive, stack, infoChannel, errChannel, infoClosed,
              errClosed, closes, fetches, sentAt, errors, delivered, errDelivered>>

vars == <<putVars, listVars>>

\* what was sent on infoChannel, in order: received or still buffered
Stream == delivered \o infoChannel

\* every entry sent on infoChannel, in order, with the number of loopList
\* calls made before it was sent
emitted ==
    [x \in 1..Len(sentAt) |->
        [Name |-> Stream[x].Name, Type |-> Stream[x].Type, dir |-> Stream[x].dir,
         page |-> Stream[x].page, pos |-> Stream[x].pos, fetch |-> sentAt[x]]]

\* the entries in the body of the response to a logged loopList call
BodyOf(f) == IF f.res = "ok" THEN Page(f.dir, f.page) ELSE <<>>

InitPut ==
    /\ upc = "idle"
    /\ retryCount \in RetryCounts
    /\ size = 0
    /\ useMD5 \in BOOLEAN
    /\ reporter \in BOOLEAN
    /\ headers = EmptyMap
    /\ headers0 = EmptyMap
    /\ maxPartID = 0
    /\ part = 0
    /\ innerHeaders = EmptyMap
    /\ i = 0
    /\ resp = EmptyMap
    /\ err = NoErr
    /\ requests = <<>>
    /\ reported = <<>>
    /\ calls = 0
    /\ window = NewWindow

InitList ==
    /\ lpc = "idle"
    /\ key = <<>>
    /\ order = ""
    /\ recursive = FALSE
    /\ stack = <<>>
    /\ infoChannel = <<>>
    /\ errChannel = <<>>
    /\ infoClosed = FALSE
    /\ errClosed = FALSE
    /\ closes = [info |-> 0, err |-> 0]
    /\ fetches = <<>>
    /\ sentAt = <<>>
    /\ errors = <<>>
    /\ delivered = <<>>
    /\ errDelivered = <<>>

Init == InitPut /\ InitList

\* the map a call is given: a new one on the first call, afterwards the map
\* the previous call used (a later call with a new map is a first call again)
CallerMaps == IF calls = 0 THEN BaseHeaders ELSE {headers}

\* a PUT as it left the client
Request(chunked, p, a, h, outcome, uuid, w) ==
    [chunked |-> chunked, part |-> p, attempt |-> a, headers |-> h,
     outcome |-> outcome, uuid |-> uuid,
     pos |-> w.pos, sleeps |-> w.sleeps, seeks |-> w.seeks]

\* response header of a successful PUT
OkHeader(uuid) == IF uuid = "" THEN EmptyMap ELSE [k \in {"X-Upyun-Multi-Uuid"} |-> uuid]

\* ResumePut up to its first network call: lines 152-171
ResumePut(s, h) ==
    /\ upc \in {"idle", "done"}
    /\ calls < MaxCalls
    /\ calls' = calls + 1
    /\ size' = s
    /\ headers' = h
    /\ headers0' = h
    /\ resp' = EmptyMap
    /\ err' = NoErr
    /\ requests' = <<>>
    /\ reported' = <<>>
    /\ innerHeaders' = EmptyMap
    /\ i' = 0
    /\ part' = 0
    /\ IF s < resumeFileSizeLowerLimit
       THEN upc' = "single" /\ maxPartID' = 0
       ELSE /\ maxPartID' = MaxPartID(s)
            /\ upc' = IF 0 <= MaxPartID(s) THEN "part" ELSE "done"
    /\ window' = NewWindow
    /\ UNCHANGED <<retryCount, useMD5, reporter>>

\* the single-shot path: return u.Put(key, value, useMD5, headers), line 165
PutWhole(outcome, uuid) ==
    /\ upc = "single"
    /\ LET h == PutHeaders(headers, TRUE, size, useMD5)
       IN  /\ headers' = h
           /\ requests' = Append(requests,
                            Request(FALSE, 0 - 1, 0, h, outcome, uuid, window))
    /\ resp' = IF outcome = "ok" THEN OkHeader(uuid) ELSE EmptyMap
    /\ err' = IF outcome = "ok" THEN NoErr ELSE MkErr(outcome, 0 - 1, 0)
    /\ upc' = "done"
    /\ UNCHANGED <<retryCount, size, useMD5, reporter, headers0, maxPartID, part,
                   innerHeaders, i, reported, calls, window>>

\* lines 227-234 and the loop condition of line 175, after part `part` is over
\* with response header r, n PUTs having been issued
FinishPart(r, n) ==
    /\ reported' = IF reporter
                   THEN Append(reported, [part |-> part, max |-> maxPartID, at |-> n])
                   ELSE reported
    /\ headers' = IF StoresToken(part)
                  THEN MapSet(headers, "X-Upyun-Multi-UUID", MapGet(r, "X-Upyun-Multi-Uuid"))
                  ELSE headers
    /\ part' = part + 1
    /\ upc' = IF part + 1 <= maxPartID THEN "part" ELSE "done"
    /\ err' = NoErr

\* lines 177-208: the part's headers and window, NewFragmentFile succeeding
BeginPart ==
    /\ upc = "part"
    /\ innerHeaders' = InnerHeaders(headers, part, maxPartID, size, useMD5)
    /\ i' = 0
    /\ window' = OpenWindow(window)
    /\ IF LoopEnters(retryCount)
       THEN /\ upc' = "attempt"
            /\ UNCHANGED <<reported, headers, part, err>>
       ELSE FinishPart(resp, Len(requests))
    /\ UNCHANGED <<retryCount, size, useMD5, reporter, headers0, maxPartID,
                   resp, requests, calls>>

\* lines 202-205: NewFragmentFile fails
NewFragmentFileError ==
    /\ upc = "part"
    /\ err' = MkErr("window", part, 0 - 1)
    /\ upc' = "done"
    /\ UNCHANGED <<retryCount, size, useMD5, reporter, headers, headers0, maxPartID,
                   part, innerHeaders, i, resp, requests, reported, calls, window>>

\* one iteration of the retry loop, lines 211-226, and what follows it
PutPart(outcome, uuid) ==
    /\ upc = "attempt"
    /\ LET h == PutHeaders(innerHeaders, FALSE, size, useMD5)
           r == IF outcome = "ok" THEN OkHeader(uuid) ELSE EmptyMap
       IN  /\ innerHeaders' = h
           /\ requests' = Append(requests,
                            Request(TRUE, part, i, h, outcome, uuid, window))
           /\ resp' = r
           /\ IF outcome = "ok"
              THEN /\ FinishPart(r, Len(requests) + 1)
                   /\ window' = Consumed(window, WindowLen(size, part))
                   /\ UNCHANGED i
              ELSE IF ~Retryable(outcome) \/ LastAttempt(i, retryCount)
              THEN /\ err' = MkErr(outcome, part, i)
                   /\ upc' = "done"
                   /\ window' = Consumed(window, WindowLen(size, part))
                   /\ UNCHANGED <<i, part, headers, reported>>
              ELSE /\ i' = i + 1
                   /\ window' = RetryWait(Consumed(window, WindowLen(size, part)))
                   /\ UNCHANGED <<upc, err, part, headers, reported>>
    /\ UNCHANGED <<retryCount, size, useMD5, reporter, headers0, maxPartID, calls>>

Next ==
    \/ \E s \in Sizes, h \in CallerMaps : ResumePut(s, h) /\ UNCHANGED listVars
    \/ \E o \in {"ok", "net", "proto"}, u \in ResponseUuids :
          PutWhole(o, IF o = "ok" THEN u ELSE "") /\ UNCHANGED listVars
    \/ BeginPart /\ UNCHANGED listVars
    \/ NewFragmentFileError /\ UNCHANGED listVars
    \/ \E o \in {"ok", "net", "proto"}, u \in ResponseUuids :
          PutPart(o, IF o = "ok" THEN u ELSE "") /\ UNCHANGED listVars

\* the uploader
Spec == Init /\ [][Next]_vars

\* ------------------------------------------------------- GetLargeList
RootKeys == {<<>>, <<"/", "r">>, <<"r", "/">>}

\* a new activation of listDir(k): lines 301-304
NewFrame(k) == [k |-> k, iter |-> "", infos |-> <<>>, idx |-> 1, st |-> "fetch"]

Top(stk) == stk[Len(stk)]
SetTop(stk, f) == [stk EXCEPT ![Len(stk)] = f]
Pop(stk) == SubSeq(stk, 1, Len(stk) - 1)

\* line 314
Abs(k, f) == Join(k, f.Name)

\* the directory, relative to the listed root, that the request path k names
ServerDir(k) ==
    IF key = WideKey THEN Segments(k)
    ELSE SubSeq(Segments(k), Len(Segments(key)) + 1, Len(Segments(k)))

\* (mutant) folders are not entered
Descends_Never(f) == FALSE

\* line 320
Descends(f) == recursive /\ f.Type = "folder"

\* listDir from the activation on top of stk up to its next channel send or
\* network call: lines 312-331.  The empty stack: listDir(key) has returned.
Settle(stk) ==
    LET top == Top(stk)
    IN  IF top.idx <= Len(top.infos) THEN
            IF Descends(top.infos[top.idx])
            THEN Append(stk, NewFrame(Abs(top.k, top.infos[top.idx]) \o <<"/">>))
            ELSE SetTop(stk, [top EXCEPT !.st = "send"])
        ELSE IF MorePages(top.iter) THEN SetTop(stk, [top EXCEPT !.st = "fetch"])
        ELSE IF Len(stk) = 1 THEN <<>>
        ELSE SetTop(Pop(stk), [Top(Pop(stk)) EXCEPT !.st = "send"])

\* (mutant) the background task ends without closing the channels
AfterListDir_NoClose(stk) == IF stk = <<>> THEN "exit" ELSE "run"

\* lines 334-337: when listDir(key) has returned the channels are closed
AfterListDir(stk) == IF stk = <<>> THEN "closeErr" ELSE "run"

\* (mutant) the enclosing listDir goes on after a failed listing of a folder
AfterFetchError_GoOn(stk) ==
    IF Len(stk) = 1 THEN <<>>
    ELSE SetTop(Pop(stk), [Top(Pop(stk)) EXCEPT !.st = "send"])

\* lines 307-310 and 321-323: every activation returns the error
AfterFetchError(stk) == <<>>

\* lines 287-298: the channels are made, the background task is started
GetLargeList(k0, asc, rec) ==
    /\ lpc = "idle"
    /\ key' = NormalizeKey(k0)
    /\ order' = OrderOf(asc)
    /\ recursive' = rec
    /\ stack' = <<NewFrame(NormalizeKey(k0))>>
    /\ lpc' = "run"
    /\ UNCHANGED <<infoChannel, errChannel, infoClosed, errClosed, closes, fetches,
                   sentAt, errors, delivered, errDelivered>>

FetchRecord(top, res, hdr) ==
    [k |-> top.k, iter |-> top.iter, order |-> order, limit |-> ListLimit,
     dir |-> ServerDir(top.k), page |-> PageOf(top.iter),
     res |-> res, hdr |-> hdr, sent |-> Len(sentAt)]

\* line 306, the page fetch succeeding with cursor header hdr
LoopListOk(hdr) ==
    /\ lpc = "run"
    /\ Top(stack).st = "fetch"
    /\ \E top \in {Top(stack)} :
       \E dir \in {ServerDir(top.k)} :
       \E j \in {PageOf(top.iter)} :
           /\ dir \in Dirs \cup {DirW}
           /\ j \in 1..PageCount(dir)
           /\ hdr \in CursorHeaders(dir, j)
           /\ \E body \in {Page(dir, j)} :
              \E r \in {LoopListReturn(body, hdr)} :
              \E stk \in {Settle(SetTop(stack,
                            [top EXCEPT !.iter = r.niter, !.infos = r.infos, !.idx = 1]))} :
                  /\ stack' = stk
                  /\ lpc' = AfterListDir(stk)
                  /\ fetches' = Append(fetches, FetchRecord(top, "ok", hdr))
    /\ UNCHANGED <<key, order, recursive, infoChannel, errChannel, infoClosed, errClosed,
                   closes, sentAt, errors, delivered, errDelivered>>

\* line 306, the page fetch failing: lines 307-310
LoopListError ==
    /\ lpc = "run"
    /\ Top(stack).st = "fetch"
    /\ CanSend(errChannel, ErrChannelCap)
    /\ \E top \in {Top(stack)} :
       \E e \in {[k |-> top.k, iter |-> top.iter, fetch |-> Len(fetches) + 1]} :
       \E stk \in {AfterFetchError(stack)} :
           /\ errChannel' = Append(errChannel, e)
           /\ errors' = Append(errors, e)
           /\ fetches' = Append(fetches, FetchRecord(top, "err", Absent))
           /\ stack' = stk
           /\ lpc' = AfterListDir(stk)
    /\ UNCHANGED <<key, order, recursive, infoChannel, infoClosed, errClosed, closes,
                   sentAt, delivered, errDelivered>>

\* line 325: infoChannel <- f, with the name rewritten at lines 314-319
SendInfo ==
    /\ lpc = "run"
    /\ Top(stack).st = "send"
    /\ CanSend(infoChannel, InfoChannelCap)
    /\ \E top \in {Top(stack)} :
       \E f \in {top.infos[top.idx]} :
       \E abs \in {Abs(top.k, f)} :
       \E g \in {[f EXCEPT !.Name = RelativeName(abs, key)]} :
       \E stk \in {Settle(SetTop(stack, [top EXCEPT !.idx = top.idx + 1]))} :
           /\ infoChannel' = Append(infoChannel, g)
           /\ sentAt' = Append(sentAt, Len(fetches))
           /\ stack' = stk
           /\ lpc' = AfterListDir(stk)
    /\ UNCHANGED <<key, order, recursive, errChannel, infoClosed, errClosed, closes,
                   fetches, errors, delivered, errDelivered>>

\* line 336
CloseErrChannel ==
    /\ lpc = "closeErr"
    /\ errClosed' = TRUE
    /\ closes' = [closes EXCEPT !.err = closes.err + 1]
    /\ lpc' = "closeInfo"
    /\ UNCHANGED <<key, order, recursive, stack, infoChannel, errChannel, infoClosed,
                   fetches, sentAt, errors, delivered, errDelivered>>

\* line 337
CloseInfoChannel ==
    /\ lpc = "closeInfo"
    /\ infoClosed' = TRUE
    /\ closes' = [closes EXCEPT !.info = closes.info + 1]
    /\ lpc' = "exit"
    /\ UNCHANGED <<key, order, recursive, stack, infoChannel, errChannel, errClosed,
                   fetches, sentAt, errors, delivered, errDelivered>>

\* the consumer receives an entry
RecvInfo ==
    /\ infoChannel # <<>>
    /\ delivered' = Append(delivered, Head(infoChannel))
    /\ infoChannel' = Tail(infoChannel)
    /\ UNCHANGED <<lpc, key, order, recursive, stack, errChannel, infoClosed, errClosed,
                   closes, fetches, sentAt, errors, errDelivered>>

\* the consumer receives an error
RecvErr ==
    /\ errChannel # <<>>
    /\ errDelivered' = Append(errDelivered, Head(errChannel))
    /\ errChannel' = Tail(errChannel)
    /\ UNCHANGED <<lpc, key, order, recursive, stack, infoChannel, infoClosed, errClosed,
                   closes, fetches, sentAt, errors, delivered>>

InitL ==
    /\ InitList
    /\ InitPut
    /\ retryCount = 0 /\ useMD5 = FALSE /\ reporter = FALSE

NextList ==
    \/ \E k0 \in RootKeys, asc \in BOOLEAN, rec \in BOOLEAN :
          GetLargeList(k0, asc, rec) /\ UNCHANGED putVars
    \/ \E hdr \in {"", "c2", "c3", "c4", Sentinel, Absent} :
          LoopListOk(hdr) /\ UNCHANGED putVars
    \/ LoopListError /\ UNCHANGED putVars
    \/ SendInfo /\ UNCHANGED putVars
    \/ CloseErrChannel /\ UNCHANGED putVars
    \/ CloseInfoChannel /\ UNCHANGED putVars
    \/ RecvInfo /\ UNCHANGED putVars
    \/ RecvErr /\ UNCHANGED putVars

\* the listing
SpecList == InitL /\ [][NextList]_vars

\* the steps of the background task of lines 298-338
Background ==
    \/ \E hdr \in {"", "c2", "c3", "c4", Sentinel, Absent} : LoopListOk(hdr)
    \/ LoopListError
    \/ SendInfo
    \/ CloseErrChannel
    \/ CloseInfoChannel

\* the listing with a scheduler that runs the background task while it can
\* take a step (every page fetch is answered), and a consumer that keeps
\* receiving from infoChannel
SpecListFair ==
    /\ SpecList
    /\ WF_vars(Background /\ UNCHANGED putVars)
    /\ WF_vars(RecvInfo /\ UNCHANGED putVars)

\* a consumer that stops receiving after MaxRecv entries at most
RecvInfoSome ==
    /\ Len(delivered) < MaxRecv
    /\ RecvInfo

\* the listing of the wide directory for a consumer that stops receiving
NextStall ==
    \/ \E asc \in BOOLEAN :
          GetLargeList(WideKey, asc, FALSE) /\ UNCHANGED putVars
    \/ \E hdr \in {CursorNames[j] : j \in 1..Len(CursorNames)} \cup {Sentinel, Absent} :
          LoopListOk(hdr) /\ UNCHANGED putVars
    \/ LoopListError /\ UNCHANGED putVars
    \/ SendInfo /\ UNCHANGED putVars
    \/ CloseErrChannel /\ UNCHANGED putVars
    \/ CloseInfoChannel /\ UNCHANGED putVars
    \/ RecvInfoSome /\ UNCHANGED putVars
    \/ RecvErr /\ UNCHANGED putVars

SpecStall == InitL /\ [][NextStall]_vars

\* ------------------------------------------------- the listing logs, read
IsPrefix(a, b) == Len(a) <= Len(b) /\ SubSeq(b, 1, Len(a)) = a

\* the entries of pages 1..j of dir, in order
RECURSIVE PagesUpTo(_, _)
PagesUpTo(dir, j) == IF j = 0 THEN <<>> ELSE PagesUpTo(dir, j - 1) \o Page(dir, j)

AllEntries ==
    UNION {{Page(d, j)[x] : x \in 1..Len(Page(d, j))} : d \in Dirs, j \in 1..(1 + ExtraPages)}
ServerEntries == {e \in AllEntries : e.page <= PageCount(e.dir)}

\* the path of a server entry relative to the listed root
RootRelative(e) == JoinSegments(Append(e.dir, e.Name))

Same(a, b) == a.dir = b.dir /\ a.page = b.page /\ a.pos = b.pos
\* where in `emitted` the server entry e is; the empty set when it is not
EmittedAt(e) == {x \in 1..Len(emitted) : Same(emitted[x], e)}

NoFetchError == \A j \in 1..Len(fetches) : fetches[j].res = "ok"
EveryCursorPresent == \A j \in 1..Len(fetches) : fetches[j].hdr # Absent
Started == lpc # "idle"

\* C8: in a non-recursive listing whose page fetches all succeeded with the
\* cursor header, the entry stream carries the entries of the root's pages in
\* page order and in within-page order, each once; when the task has ended
\* it carries all of them (as many as the pages hold), no error was sent and
\* both channels are closed.
C8_FlatListing ==
    (Started /\ ~recursive /\ NoFetchError /\ EveryCursorPresent)
    => LET want == PagesUpTo(<<>>, PageCount(<<>>))
       IN  /\ Len(Stream) <= Len(want)
           /\ \A x \in 1..Len(Stream) :
                 /\ Same(Stream[x], want[x])
                 /\ Stream[x].Name = want[x].Name
                 /\ Stream[x].Type = want[x].Type
           /\ errors = <<>> /\ errChannel = <<>> /\ errDelivered = <<>>
           /\ lpc = "exit" =>
                 /\ Len(Stream) = Len(want)
                 /\ infoClosed /\ errClosed

\* C8 witness: both pages were listed, the last one ending with the sentinel,
\* and the consumer has received everything
C8_Witness ==
    /\ lpc = "exit" /\ ~recursive /\ NoFetchError /\ EveryCursorPresent
    /\ Len(fetches) = PageCount(<<>>)
    /\ fetches[Len(fetches)].hdr = Sentinel
    /\ infoChannel = <<>>
    /\ Len(delivered) = Len(PagesUpTo(<<>>, PageCount(<<>>)))

InSubtree(e, folder) == IsPrefix(Append(folder.dir, folder.Name), e.dir)
LaterInParent(s, folder) ==
    /\ s.dir = folder.dir
    /\ s.page > folder.page \/ (s.page = folder.page /\ s.pos > folder.pos)
Folders == {e \in ServerEntries : e.Type = "folder"}
\* the entries a response with the cursor header has returned so far
Returned0 ==
    UNION {{BodyOf(fetches[j])[x] : x \in 1..Len(BodyOf(fetches[j]))} :
           j \in {q \in 1..Len(fetches) : fetches[q].res = "ok" /\ fetches[q].hdr # Absent}}
NamesRelative ==
    \A x \in 1..Len(emitted) :
        /\ emitted[x].Name = RootRelative(CHOOSE e \in ServerEntries : Same(e, emitted[x]))
        /\ emitted[x].Name[1] # "/"
\* every entry of `among` under folder is sent before the sibling s
SubtreeBefore(folder, s, among) ==
    \A e \in among :
        InSubtree(e, folder) => \E x \in EmittedAt(e) : \A y \in EmittedAt(s) : x < y

C10_FirstErrorHalts ==
    /\ Len(errors) <= 1
    /\ errDelivered \o errChannel = errors
    /\ errors # <<>> => fetches[Len(fetches)].res = "err"
    /\ \A j \in 1..Len(fetches) :
          fetches[j].res = "err"
          => /\ j = Len(fetches)
             /\ Len(errors) = 1
             /\ errors[1].fetch = j
             /\ errors[1].k = fetches[j].k
             /\ Len(emitted) = fetches[j].sent
             /\ \A x \in 1..Len(emitted) : emitted[x].fetch < j

\* C10 witness: the second page of the folder two levels down failed after
\* entries had been sent, and the task has ended
C10_Witness ==
    /\ lpc = "exit"
    /\ Len(fetches) >= 4
    /\ fetches[Len(fetches)].res = "err"
    /\ fetches[Len(fetches)].dir = DirD
    /\ fetches[Len(fetches)].page = 2
    /\ Len(emitted) >= 1

\* ------------------------------------------------- the request log, read
Chunked == resumeFileSizeLowerLimit <= size
ChunkedIdx == {j \in 1..Len(requests) : requests[j].chunked}
ReqsOf(p) == {j \in ChunkedIdx : requests[j].part = p}
IsOkPart(r) == r.chunked /\ r.outcome = "ok"
OkSeq == SelectSeq(requests, IsOkPart)
\* the parts that completed, in the order they completed
OkParts == [j \in 1..Len(OkSeq) |-> OkSeq[j].part]
Upto(n) == [j \in 1..n |-> j - 1]
Returned == upc = "done"

\* C1: with ResumeRetryCount = N >= 0, no part is attempted more than N+1
\* times; when ResumePut has returned, a part all of whose attempts failed
\* with a network error was attempted exactly N+1 times and an error was
\* returned; a protocol error is the last request of the upload, it ends the
\* upload with that error, and the attempts of its part before it are exactly
\* the network failures that preceded it (none when it came first).
C1_RetryPolicy ==
    retryCount >= 0 =>
        /\ \A p \in 0..maxPartID : Cardinality(ReqsOf(p)) <= retryCount + 1
        /\ \A p \in 0..maxPartID :
              (/\ Returned
               /\ ReqsOf(p) # {}
               /\ \A j \in ReqsOf(p) : requests[j].outcome = "net")
              => /\ Cardinality(ReqsOf(p)) = retryCount + 1
                 /\ err = MkErr("net", p, retryCount)
        /\ \A j \in ChunkedIdx :
              requests[j].outcome = "proto"
              => /\ j = Len(requests)
                 /\ Returned
                 /\ err = MkErr("proto", requests[j].part, requests[j].attempt)
                 /\ Cardinality(ReqsOf(requests[j].part)) = requests[j].attempt + 1
                 /\ \A k \in ReqsOf(requests[j].part) :
                       k # j => requests[k].outcome = "net"

\* C1 witness: with N = 1, a part after the first exhausted its two attempts
\* on network errors and ResumePut returned
C1_Witness ==
    /\ Returned /\ retryCount = 1 /\ Len(requests) >= 3
    /\ requests[Len(requests)].outcome = "net"
    /\ requests[Len(requests)].attempt = 1
    /\ requests[Len(requests)].part >= 1

\* C2: when the first attempt of part k fails with a protocol error,
\* ResumePut has returned that error, the completed parts are 0..k-1 in
\* order, part k was sent once and no later part was sent.
C2_AbortOnProtocolError ==
    \A j \in ChunkedIdx :
        (requests[j].outcome = "proto" /\ requests[j].attempt = 0)
        => LET k == requests[j].part
           IN  /\ Returned
               /\ err = MkErr("proto", k, 0)
               /\ OkParts = Upto(k)
               /\ Cardinality(ReqsOf(k)) = 1
               /\ \A q \in ChunkedIdx : requests[q].part <= k

\* C2 witness: part 2 of 3 failed at once with a protocol error
C2_Witness ==
    /\ Returned /\ maxPartID = 2 /\ err = MkErr("proto", 2, 0)
    /\ OkParts = <<0, 1>>

\* the number of parts of a file of s bytes cut in parts of p bytes
PartCount(s, p) == IF s % p = 0 THEN s \div p ELSE (s \div p) + 1

C3_Witness ==
    /\ Returned /\ Chunked /\ err = NoErr /\ retryCount >= 0
    /\ size = 2 * resumePartSize /\ Len(OkParts) = 2
Stage(r) == r.headers["X-Upyun-Multi-Stage"]
ContentLength(r) == Atoi(r.headers["Content-Length"])

\* C4 as claimed: on every chunked request, single-part uploads included, the
\* part maxPartID has stage "upload,complete" and length
\* size - partSize * maxPartID, part 0 has stage "initiate,upload", the parts
\* between have stage "upload", and every part but the last has length partSize.
C4_Claimed ==
    \A j \in ChunkedIdx :
        LET r == requests[j]
        IN  /\ r.part = maxPartID =>
                  /\ Stage(r) = "upload,complete"
                  /\ ContentLength(r) = size - resumePartSize * maxPartID
            /\ r.part = 0 => Stage(r) = "initiate,upload"
            /\ (0 < r.part /\ r.part < maxPartID) => Stage(r) = "upload"
            /\ r.part # maxPartID => ContentLength(r) = resumePartSize

\* C4 amended: the same for uploads of two parts or more (maxPartID >= 1); the
\* only part of a single-part upload is sent as part 0, with stage
\* "initiate,upload" and length partSize.
C4_StageAndLength ==
    \A j \in ChunkedIdx :
        LET r == requests[j]
        IN  /\ (r.part = maxPartID /\ maxPartID >= 1) =>
                  /\ Stage(r) = "upload,complete"
                  /\ ContentLength(r) = size - resumePartSize * maxPartID
            /\ r.part = 0 =>
                  /\ Stage(r) = "initiate,upload"
                  /\ ContentLength(r) = resumePartSize
            /\ (0 < r.part /\ r.part < maxPartID) =>
                  /\ Stage(r) = "upload"
                  /\ ContentLength(r) = resumePartSize

\* C4 witness: a three-part upload with a short last part was sent whole
C4_Witness ==
    /\ Returned /\ err = NoErr /\ maxPartID = 2 /\ size = 5
    /\ Len(OkParts) = 3
    /\ ContentLength(requests[Len(requests)]) = 1

Token(r) == r.headers["X-Upyun-Multi-UUID"]

\* C5: every request of a part >= 1 carries X-Upyun-Multi-UUID, and its value
\* is the token of the response to the successful send of part 0 of this
\* upload.
C5_TokenPropagated ==
    \A j \in ChunkedIdx :
        requests[j].part >= 1
        => /\ MapHas(requests[j].headers, "X-Upyun-Multi-UUID")
           /\ \E z \in ReqsOf(0) :
                 /\ z < j
                 /\ requests[z].outcome = "ok"
                 /\ Token(requests[j]) = requests[z].uuid

\* C5 witness: the third part was retried, after the responses to parts 0 and
\* 1 carried different tokens
C5_Witness ==
    /\ Len(requests) >= 4
    /\ requests[Len(requests)].part = 2
    /\ requests[Len(requests)].attempt = 1
    /\ \E a \in ReqsOf(0), b \in ReqsOf(1) :
          /\ requests[a].outcome = "ok" /\ requests[b].outcome = "ok"
          /\ requests[a].uuid = "u1" /\ requests[b].uuid = ""

\* C6 as claimed: also when the header map was used by an earlier call,
\* X-Upyun-Multi-Length and X-Upyun-Multi-Type are on requests of part 0 only,
\* X-Upyun-Multi-MD5 on requests of the final part only and only with useMD5,
\* X-Upyun-Multi-UUID on no request of part 0 and on every request of a later
\* part.
C6_Claimed ==
    \A j \in ChunkedIdx :
        LET r == requests[j]
        IN  /\ MapHas(r.headers, "X-Upyun-Multi-Length") => r.part = 0
            /\ MapHas(r.headers, "X-Upyun-Multi-Type") => r.part = 0
            /\ MapHas(r.headers, "X-Upyun-Multi-MD5") => (r.part = maxPartID /\ useMD5)
            /\ r.part = 0 => ~MapHas(r.headers, "X-Upyun-Multi-UUID")
            /\ r.part >= 1 => MapHas(r.headers, "X-Upyun-Multi-UUID")

\* C7 as claimed: once part 0 has succeeded with a response without a session
\* token, no part >= 1 is sent and ResumePut returns an error.
C7_Claimed ==
    \A j \in ReqsOf(0) :
        (requests[j].outcome = "ok" /\ requests[j].uuid = "")
        => /\ \A q \in ChunkedIdx : requests[q].part = 0
           /\ Returned => err # NoErr

Last(q) == q[Len(q)]
PartID(r) == r.headers["X-Upyun-Part-ID"]

\* C14 as claimed: ResumePut issues single-shot PUTs exactly when the size is
\* below the threshold; such a call issues one PUT, which carries no
\* part-index, stage or session-token header and is not retried, and a call
\* at or above the threshold issues no PUT of the whole object.
C14_Claimed ==
    /\ \A j \in 1..Len(requests) : requests[j].chunked <=> Chunked
    /\ ~Chunked =>
          /\ Len(requests) <= 1
          /\ Returned => Len(requests) = 1
          /\ \A j \in 1..Len(requests) :
                /\ ~MapHas(requests[j].headers, "X-Upyun-Part-ID")
                /\ ~MapHas(requests[j].headers, "X-Upyun-Multi-Stage")
                /\ ~MapHas(requests[j].headers, "X-Upyun-Multi-UUID")

\* C15 as claimed: for every retry count, a chunked ResumePut that returned
\* without error has completed every part 0..maxPartID and returns the
\* response headers of the final part's successful PUT; one that returned an
\* error did so after a failed PUT or a failed window construction.
C15_Claimed ==
    (Returned /\ Chunked) =>
        /\ err = NoErr =>
              /\ OkParts = Upto(maxPartID + 1)
              /\ requests # <<>>
              /\ Last(requests).outcome = "ok"
              /\ Last(requests).part = maxPartID
              /\ resp = OkHeader(Last(requests).uuid)
        /\ err # NoErr =>
              \/ err.kind = "window"
              \/ /\ requests # <<>>
                 /\ Last(requests).outcome # "ok"
                 /\ err = MkErr(Last(requests).outcome, Last(requests).part,
                                Last(requests).attempt)

\* the parts are sent one after the other: a PUT of a later part follows a
\* successful PUT of every earlier part
OnePartInFlight ==
    \A j, k \in ChunkedIdx :
        (j < k) =>
            /\ requests[j].part <= requests[k].part
            /\ requests[j].part < requests[k].part =>
                  \E q \in j..(k - 1) : /\ requests[q].part = requests[j].part
                                        /\ requests[q].outcome = "ok"

\* the reporter was invoked once for each completed part and for no other,
\* with (part, maxPartID), in increasing order, each right after the part's
\* successful PUT and so before any PUT of the next part
ReportedCompleted ==
    /\ Len(reported) = Len(OkSeq)
    /\ \A j \in 1..Len(reported) :
          /\ reported[j].part = j - 1
          /\ reported[j].max = maxPartID
          /\ reported[j].at \in ChunkedIdx
          /\ requests[reported[j].at].outcome = "ok"
          /\ requests[reported[j].at].part = reported[j].part
          /\ \A q \in ReqsOf(reported[j].part + 1) : reported[j].at < q

\* C16 as claimed: a supplied reporter is invoked exactly as ReportedCompleted
\* says, never for a part that did not complete, and no two parts are in
\* flight at the same time.
C16_Claimed ==
    /\ Chunked /\ reporter => ReportedCompleted
    /\ ~reporter => reported = <<>>
    /\ OnePartInFlight

\* C18 as claimed: when ResumePut has returned, the caller's header map is as
\* it was when ResumePut was called.
C18_Claimed == Returned => headers = headers0

\* C19: with ResumeRetryCount = N >= 0 the budget of N+1 attempts is per part:
\* the first PUT of every part is attempt 0, made without a wait after the
\* successful PUT of the part before; the next attempt of the same part
\* follows a network error, after exactly one wait and one re-seek, and reads
\* the window from its start; after a part's successful PUT the upload goes on
\* to the next part; the error returned when a part exhausted its attempts is
\* the one of its last attempt.
C19_RetryBudget ==
    retryCount >= 0 =>
        /\ \A p \in 0..maxPartID : Cardinality(ReqsOf(p)) <= retryCount + 1
        /\ \A j \in ChunkedIdx :
              LET r == requests[j]
              IN  /\ r.pos = 0
                  /\ j = 1 => (r.attempt = 0 /\ r.part = 0 /\ r.sleeps = 0 /\ r.seeks = 0)
                  /\ (j > 1 /\ requests[j - 1].part = r.part) =>
                        /\ requests[j - 1].outcome = "net"
                        /\ r.attempt = requests[j - 1].attempt + 1
                        /\ r.sleeps = requests[j - 1].sleeps + 1
                        /\ r.seeks = requests[j - 1].seeks + 1
                  /\ (j > 1 /\ requests[j - 1].part # r.part) =>
                        /\ requests[j - 1].outcome = "ok"
                        /\ r.part = requests[j - 1].part + 1
                        /\ r.attempt = 0
                        /\ r.sleeps = requests[j - 1].sleeps
                        /\ r.seeks = requests[j - 1].seeks
                  /\ (r.outcome = "ok" /\ r.part < maxPartID) =>
                        \/ j < Len(requests) /\ requests[j + 1].part = r.part + 1
                        \/ j = Len(requests) /\ ~Returned /\ part = r.part + 1
                        \/ j = Len(requests) /\ Returned /\ err = MkErr("window", r.part + 1, 0 - 1)
        /\ (/\ Returned /\ Chunked /\ requests # <<>>
            /\ Last(requests).outcome = "net")
           => /\ Last(requests).attempt = retryCount
              /\ err = MkErr("net", Last(requests).part, retryCount)

\* C19 witness: with N = 1, part 0 succeeded on its second attempt and part 1
\* was still attempted twice, failed both times and ResumePut returned the
\* second failure
C19_Witness ==
    /\ Returned /\ retryCount = 1 /\ Len(requests) = 4
    /\ requests[1].outcome = "net" /\ requests[2].outcome = "ok"
    /\ requests[3].part = 1 /\ requests[4].part = 1
    /\ requests[4].sleeps = 2 /\ requests[4].seeks = 2
    /\ err = MkErr("net", 1, 1)

\* C11: once GetLargeList was called, both channels are eventually closed,
\* after a traversal that ended normally as after one a fetch error aborted;
\* close is called at most once on each channel, exactly once by the time the
\* background task has ended, and nothing is sent on a closed channel.
C11_BothClosed ==
    /\ (lpc # "idle") ~> (errClosed /\ infoClosed)
    /\ [](closes.err <= 1 /\ closes.info <= 1)
    /\ []((errClosed <=> closes.err = 1) /\ (infoClosed <=> closes.info = 1))
    /\ [][/\ errClosed => (errClosed' /\ errors' = errors)
          /\ infoClosed => (infoClosed' /\ emitted' = emitted)]_vars

\* C11 witness: a traversal that a fetch error aborted after it had emitted
\* entries has closed either channel once
C11_Witness ==
    /\ lpc = "exit" /\ errors # <<>> /\ emitted # <<>>
    /\ errClosed /\ infoClosed
    /\ closes = [info |-> 1, err |-> 1]

\* ------------------------------------------------ the fetch log, read
OkFetches == {j \in 1..Len(fetches) : fetches[j].res = "ok"}
EntriesOf(j) == {BodyOf(fetches[j])[x] : x \in 1..Len(BodyOf(fetches[j]))}
Key3(e) == <<e.dir, e.page, e.pos>>
EmittedKeys == {Key3(emitted[x]) : x \in 1..Len(emitted)}
\* no page of the directory of fetch j is asked for after fetch j
LastFetchOfDir(j) == \A q \in (j + 1)..Len(fetches) : fetches[q].k # fetches[j].k
Ended == lpc = "exit"

\* C12: no request carries the sentinel as its cursor; after a response
\* whose cursor header is the sentinel, as after one whose cursor header is
\* empty, no further page of that directory is fetched, and the entries of
\* the page are sent: in page order, and all of them by the time a traversal
\* without fetch error has ended.
C12_SentinelEndsListing ==
    /\ \A j \in 1..Len(fetches) : fetches[j].iter # Sentinel
    /\ \A j \in OkFetches :
          fetches[j].hdr \in {Sentinel, ""} =>
              /\ LastFetchOfDir(j)
              /\ (Ended /\ NoFetchError) =>
                    \A e \in EntriesOf(j) : Key3(e) \in EmittedKeys
              /\ \A e1, e2 \in EntriesOf(j) :
                    (e1.pos < e2.pos /\ EmittedAt(e2) # {}) =>
                        \E x \in EmittedAt(e1) : \A y \in EmittedAt(e2) : x < y

\* C12 witness: in one traversal the listing of a folder ended with the
\* sentinel and the listing of the root with the empty cursor, and the
\* entries of both pages were sent
C12_Witness ==
    /\ Ended /\ NoFetchError
    /\ \E j, q \in OkFetches :
          /\ fetches[j].hdr = Sentinel /\ fetches[j].dir = DirD
          /\ fetches[q].hdr = "" /\ fetches[q].dir = <<>>
          /\ \A e \in EntriesOf(j) \cup EntriesOf(q) : Key3(e) \in EmittedKeys

\* the entry of the enclosing directory that names the directory dir
ParentEntries(dir) == {e \in Returned0 : e.Type = "folder" /\ Append(e.dir, e.Name) = dir}

\* C13: after a successful response without the cursor header no further
\* page of that directory is fetched; the errors sent are those of failed
\* fetches only; the enclosing listDir goes on as after a normal end: the
\* folder's own entry is sent next, and by the time a traversal without
\* fetch error has ended every entry that a response with the header
\* returned has been sent.
C13_AbsentEndsDirectory ==
    /\ \A x \in 1..Len(errors) : fetches[errors[x].fetch].res = "err"
    /\ NoFetchError => errors = <<>>
    /\ \A j \in OkFetches :
          fetches[j].hdr = Absent =>
              /\ LastFetchOfDir(j)
              /\ \A e \in ParentEntries(fetches[j].dir) :
                    \/ Len(emitted) = fetches[j].sent
                    \/ Same(emitted[fetches[j].sent + 1], e)
              /\ (Ended /\ NoFetchError) =>
                    \A e \in Returned0 : Key3(e) \in EmittedKeys

\* C13 witness: the listing of the folder r was answered without the header
\* on its only page; r itself, the file after it and the second page of the
\* root were sent and the traversal ended without error
C13_Witness ==
    /\ Ended /\ NoFetchError /\ recursive
    /\ \E j \in OkFetches : fetches[j].hdr = Absent /\ fetches[j].dir = DirR
    /\ \E j \in OkFetches : fetches[j].dir = <<>> /\ fetches[j].page = 2
    /\ Len(emitted) = 3
    /\ errors = <<>> /\ errClosed /\ infoClosed

\* the folders whose listing, or the listing of a folder below them, failed
AbortedFolders ==
    {e \in Returned0 :
        /\ e.Type = "folder" /\ recursive
        /\ \E j \in 1..Len(fetches) :
              fetches[j].res = "err" /\ IsPrefix(Append(e.dir, e.Name), fetches[j].dir)}
\* the entries that follow an aborted folder on its page
AfterAborted ==
    {e \in Returned0 :
        \E a \in AbortedFolders : e.dir = a.dir /\ e.page = a.page /\ e.pos > a.pos}
\* every entry sent was returned by a response with the header, and is sent once
OnlyReturned ==
    /\ EmittedKeys \subseteq {Key3(e) : e \in Returned0}
    /\ \A x, y \in 1..Len(emitted) : Same(emitted[x], emitted[y]) => x = y

\* C20 as claimed: only entries of responses with the cursor header are
\* sent, and when the traversal has ended the entries sent are those entries
\* but the folders whose subtree traversal a fetch error aborted.
C20_Claimed ==
    /\ OnlyReturned
    /\ Ended => EmittedKeys = {Key3(e) : e \in Returned0 \ AbortedFolders}

\* C20 amended: only entries of responses with the cursor header are sent;
\* when the traversal has ended the entries sent are those entries but the
\* folders whose subtree traversal a fetch error aborted and the entries
\* that follow such a folder on its page.
C20_OnlyFromCursorResponses ==
    /\ OnlyReturned
    /\ Ended => EmittedKeys =
                   {Key3(e) : e \in Returned0 \ (AbortedFolders \cup AfterAborted)}

\* C20 witness: a response without the header had entries in its body, none
\* of them was sent, entries of other responses were, and the traversal ended
C20_Witness ==
    /\ Ended /\ emitted # <<>>
    /\ \E j \in OkFetches :
          /\ fetches[j].hdr = Absent
          /\ BodyOf(fetches[j]) # <<>>
          /\ \A e \in EntriesOf(j) : Key3(e) \notin EmittedKeys

\* the consumer has stopped receiving
ConsumerStopped == Len(delivered) = MaxRecv
\* the background task is at the send of line 325 with the buffer full
Stalled ==
    /\ ConsumerStopped
    /\ lpc = "run" /\ Top(stack).st = "send"
    /\ Len(infoChannel) = InfoChannelCap

\* C17: infoChannel never holds more than 1000 entries and errChannel never
\* more than 10; when the consumer has stopped, no fetch failed and the
\* responses have returned more entries than the consumer took and the buffer
\* holds, neither channel is closed; the background task then comes to the
\* send of an entry with the buffer full and stays there, nothing changing
\* any more.
C17_BoundedStreams ==
    /\ [](Len(infoChannel) <= InfoChannelCap /\ Len(errChannel) <= ErrChannelCap)
    /\ []((/\ ConsumerStopped /\ NoFetchError
           /\ Cardinality(Returned0) > InfoChannelCap + Len(delivered))
          => (~infoClosed /\ ~errClosed))
    /\ [](Stalled => (~infoClosed /\ ~errClosed /\ errChannel = <<>>))
    /\ [][Stalled => (Stalled' /\ emitted' = emitted /\ fetches' = fetches)]_vars

\* C17 witness: the consumer took MaxRecv entries and stopped, 1000 more
\* entries fill the buffer and the task is at the send of the next one
C17_Witness ==
    /\ Stalled /\ NoFetchError
    /\ Len(emitted) = InfoChannelCap + MaxRecv
    /\ Cardinality(Returned0) > Len(emitted)

====
